---- MODULE Spec2Model ----
(***************************************************************************)
(* Task Manager CLI: the in-memory registry `users` of lib/cli_tool.py,    *)
(* the Task and User entities of lib/models.py, the four command handlers  *)
(* and the argparse entry point main().                                    *)
(*                                                                         *)
(* Python objects are modelled by value: a Task is a record, a User is a   *)
(* record holding its task list, the dict `users` is the sequence of its   *)
(* (key, value) entries in insertion order, and an object reference        *)
(* returned by a lookup is the index of the object in its container        *)
(* (0 is None).  A printed line is the sequence of the pieces its f-string *)
(* concatenates; a number is formatted into its decimal digits.            *)
(***************************************************************************)
EXTENDS Integers, Sequences, FiniteSets, TLC

\* ------------------------------------------------------------------ bounds

\* Cap on the number of tasks one user holds (the list is unbounded in the code).
MaxTasks == 2

\* Cap on the number of earlier CLI processes that are remembered.
MaxProcs == 2

\* Usernames and titles the commands are called with.  The empty title is an
\* input argparse accepts like any other string; two titles differ in case only.
Names == {"Alice", "Bob"}

Titles == {"", "Deploy", "deploy"}

\* ------------------------------------------------------------------ glyphs

CrossMark == "U+274C"

CheckMark == "U+2705"

Circle == "U+2B55"

Pin == "U+1F4CC"

Info == "U+2139"

Bullet == "U+2022"

\* Python's None, as an argument that is absent and as a lookup that failed.
None == "None"

NoRef == 0

VARIABLES
    users,      \* cli_tool.users: the dict, as its entries in insertion order
    out,        \* the lines the last command printed to standard output
    last,       \* the last command and its arguments
    added,      \* history: per username, the titles add_task was called with, in call order
    exitCode,   \* exit status of the last CLI process
    procs       \* history: argv of every CLI process run so far, the last one included

vars == <<users, out, last, added, exitCode, procs>>

\* ------------------------------------------------------------------ formatting

Digit == <<"0", "1", "2", "3", "4", "5", "6", "7", "8", "9">>

\* str(i) for a non-negative int, as the sequence of its decimal digits.
RECURSIVE str_int(_)
str_int(i) ==
    IF i < 10 THEN <<Digit[i + 1]>>
    ELSE str_int(i \div 10) \o <<Digit[(i % 10) + 1]>>

\* ------------------------------------------------------------------ Task

Task_init(title) ==
    [title |-> title, completed |-> FALSE]

\* Variant of Task.complete that flips the flag instead of setting it.
Task_complete_toggle(task) ==
    [task EXCEPT !.completed = ~@]

\* Task.complete: the task after the call.
Task_complete(task) ==
    [task EXCEPT !.completed = TRUE]

\* Task.complete: the line it prints.
Task_complete_print(task) ==
    <<CheckMark, " Task '", task.title, "' completed.">>

Task_str(task) ==
    <<(IF task.completed THEN CheckMark ELSE Circle), " ", task.title>>

\* ------------------------------------------------------------------ User

User_init(name) ==
    [name |-> name, tasks |-> <<>>]

\* Variant of User.add_task that inserts at the front of the list.
User_add_task_prepend(user, task) ==
    [user EXCEPT !.tasks = <<task>> \o @]

\* User.add_task: the user after the call.
User_add_task(user, task) ==
    [user EXCEPT !.tasks = Append(@, task)]

\* User.add_task: the line it prints.
User_add_task_print(user, task) ==
    <<Pin, " Task '", task.title, "' added to ", user.name, ".">>

\* The for loop of User.get_task_by_title from position i on: the position of
\* the task it returns, NoRef when it falls off the end.
RECURSIVE get_task_scan(_, _, _)
get_task_scan(tasks, title, i) ==
    IF i > Len(tasks) THEN NoRef
    ELSE IF tasks[i].title = title THEN i
    ELSE get_task_scan(tasks, title, i + 1)

\* Variant of the lookup that keeps scanning and returns the last match.
User_get_task_by_title_last(user, title) ==
    IF \E i \in 1..Len(user.tasks) : user.tasks[i].title = title
    THEN CHOOSE i \in 1..Len(user.tasks) :
            /\ user.tasks[i].title = title
            /\ \A j \in (i + 1)..Len(user.tasks) : user.tasks[j].title # title
    ELSE NoRef

\* Variant of the lookup that skips tasks already completed.
User_get_task_by_title_first_incomplete(user, title) ==
    IF \E i \in 1..Len(user.tasks) :
            user.tasks[i].title = title /\ ~user.tasks[i].completed
    THEN CHOOSE i \in 1..Len(user.tasks) :
            /\ user.tasks[i].title = title /\ ~user.tasks[i].completed
            /\ \A j \in 1..(i - 1) :
                    ~(user.tasks[j].title = title /\ ~user.tasks[j].completed)
    ELSE get_task_scan(user.tasks, title, 1)

User_get_task_by_title(user, title) ==
    get_task_scan(user.tasks, title, 1)

\* Variant of User.list_tasks that numbers the lines from 0.
User_list_tasks_from_zero(user) ==
    IF Len(user.tasks) = 0
    THEN << <<user.name, " has no tasks.">> >>
    ELSE << <<"\n", user.name, "'s tasks:">> >>
         \o [i \in 1..Len(user.tasks) |->
                <<"  ">> \o str_int(i - 1) \o <<". ">> \o Task_str(user.tasks[i])]

\* User.list_tasks: the lines it prints.
User_list_tasks(user) ==
    IF Len(user.tasks) = 0
    THEN << <<user.name, " has no tasks.">> >>
    ELSE << <<"\n", user.name, "'s tasks:">> >>
         \o [i \in 1..Len(user.tasks) |->
                <<"  ">> \o str_int(i) \o <<". ">> \o Task_str(user.tasks[i])]

User_str(user) ==
    <<"User: ", user.name, " (">> \o str_int(Len(user.tasks)) \o <<" tasks)">>

\* ------------------------------------------------------------------ dict

\* users.get(key): the position of the entry, NoRef for None.
dict_get(d, key) ==
    IF \E i \in 1..Len(d) : d[i].key = key
    THEN CHOOSE i \in 1..Len(d) : d[i].key = key
    ELSE NoRef

\* d[key] = value: replaces the value of an existing key in place, else appends.
dict_set(d, key, value) ==
    IF dict_get(d, key) # NoRef
    THEN [d EXCEPT ![dict_get(d, key)] = [key |-> key, value |-> value]]
    ELSE Append(d, [key |-> key, value |-> value])

\* ------------------------------------------------------------------ handlers
\* Each handler maps the registry and its args to the registry after the call
\* and the lines printed.

Args(user, title) ==
    [user |-> user, title |-> title]

\* Variant of add_task that constructs a User on every call.
add_task_always_new_user(reg, args) ==
    LET user == User_init(args.user)
        reg1 == dict_set(reg, args.user, user)
        task == Task_init(args.title)
        at == dict_get(reg1, args.user)
    IN  [users |-> [reg1 EXCEPT ![at].value = User_add_task(user, task)],
         out |-> << User_add_task_print(user, task) >>]

add_task(reg, args) ==
    LET found == dict_get(reg, args.user)
        user == IF found = NoRef THEN User_init(args.user) ELSE reg[found].value
        reg1 == IF found = NoRef THEN dict_set(reg, args.user, user) ELSE reg
        task == Task_init(args.title)
        at == dict_get(reg1, args.user)
    IN  [users |-> [reg1 EXCEPT ![at].value = User_add_task(user, task)],
         out |-> << User_add_task_print(user, task) >>]

\* Variant of complete_task without the already-completed branch.
complete_task_no_already_check(reg, args) ==
    LET found == dict_get(reg, args.user)
    IN  IF found = NoRef
        THEN [users |-> reg,
              out |-> << <<CrossMark, " User '", args.user, "' not found.">> >>]
        ELSE LET user == reg[found].value
                 ref == User_get_task_by_title(user, args.title)
             IN  IF ref = NoRef
                 THEN [users |-> reg,
                       out |-> << <<CrossMark, " Task '", args.title,
                                    "' not found for ", args.user, ".">> >>]
                 ELSE [users |-> [reg EXCEPT ![found].value.tasks[ref] =
                                      Task_complete(user.tasks[ref])],
                       out |-> << Task_complete_print(user.tasks[ref]) >>]

\* Variant of complete_task that gets or creates the user, as add_task does.
complete_task_creates_user(reg, args) ==
    LET found == dict_get(reg, args.user)
        reg1 == IF found = NoRef
                THEN dict_set(reg, args.user, User_init(args.user)) ELSE reg
        at == dict_get(reg1, args.user)
        user == reg1[at].value
        ref == User_get_task_by_title(user, args.title)
    IN  IF ref = NoRef
        THEN [users |-> reg1,
              out |-> << <<CrossMark, " Task '", args.title,
                           "' not found for ", args.user, ".">> >>]
        ELSE IF user.tasks[ref].completed
        THEN [users |-> reg1,
              out |-> << <<Info, "  Task '", args.title,
                           "' is already completed.">> >>]
        ELSE [users |-> [reg1 EXCEPT ![at].value.tasks[ref] =
                             Task_complete(user.tasks[ref])],
              out |-> << Task_complete_print(user.tasks[ref]) >>]

complete_task(reg, args) ==
    LET found == dict_get(reg, args.user)
    IN  IF found = NoRef
        THEN [users |-> reg,
              out |-> << <<CrossMark, " User '", args.user, "' not found.">> >>]
        ELSE LET user == reg[found].value
                 ref == User_get_task_by_title(user, args.title)
             IN  IF ref = NoRef
                 THEN [users |-> reg,
                       out |-> << <<CrossMark, " Task '", args.title,
                                    "' not found for ", args.user, ".">> >>]
                 ELSE IF user.tasks[ref].completed
                 THEN [users |-> reg,
                       out |-> << <<Info, "  Task '", args.title,
                                    "' is already completed.">> >>]
                 ELSE [users |-> [reg EXCEPT ![found].value.tasks[ref] =
                                      Task_complete(user.tasks[ref])],
                       out |-> << Task_complete_print(user.tasks[ref]) >>]

list_tasks(reg, args) ==
    LET found == dict_get(reg, args.user)
    IN  IF found = NoRef
        THEN [users |-> reg,
              out |-> << <<CrossMark, " User '", args.user, "' not found.">> >>]
        ELSE [users |-> reg, out |-> User_list_tasks(reg[found].value)]

list_users(reg, args) ==
    IF Len(reg) = 0
    THEN [users |-> reg, out |-> << <<"No users found.">> >>]
    ELSE [users |-> reg,
          out |-> << <<"\nAll users:">> >>
                  \o [i \in 1..Len(reg) |-> <<"  ", Bullet, " ">> \o User_str(reg[i].value)]]

\* ------------------------------------------------------------------ one process, handlers called in turn

NoCommand == [cmd |-> None, user |-> None, title |-> None]

Init ==
    /\ users = <<>>
    /\ out = <<>>
    /\ last = NoCommand
    /\ added = [u \in Names |-> <<>>]
    /\ exitCode = 0
    /\ procs = <<>>

Apply(r, cmd, user, title) ==
    /\ users' = r.users
    /\ out' = r.out
    /\ last' = [cmd |-> cmd, user |-> user, title |-> title]
    /\ UNCHANGED <<exitCode, procs>>

TaskCount(reg, name) ==
    IF dict_get(reg, name) = NoRef THEN 0
    ELSE Len(reg[dict_get(reg, name)].value.tasks)

AddTask(u, t) ==
    /\ TaskCount(users, u) < MaxTasks
    /\ Apply(add_task(users, Args(u, t)), "add-task", u, t)
    /\ added' = [added EXCEPT ![u] = Append(@, t)]

CompleteTask(u, t) ==
    /\ Apply(complete_task(users, Args(u, t)), "complete-task", u, t)
    /\ UNCHANGED added

ListTasks(u) ==
    /\ Apply(list_tasks(users, Args(u, None)), "list-tasks", u, None)
    /\ UNCHANGED added

ListUsers ==
    /\ Apply(list_users(users, Args(None, None)), "list-users", None, None)
    /\ UNCHANGED added

Next ==
    \/ \E u \in Names, t \in Titles : AddTask(u, t)
    \/ \E u \in Names, t \in Titles : CompleteTask(u, t)
    \/ \E u \in Names : ListTasks(u)
    \/ ListUsers

Spec == Init /\ [][Next]_vars

\* ------------------------------------------------------------------ the CLI: one process per invocation

\* Command lines the tool is started with: the four commands, no command,
\* --help, an unknown command, a missing and a surplus positional.
Argvs ==
    {<<"add-task", u, t>> : u \in Names, t \in Titles}
    \cup {<<"complete-task", u, t>> : u \in Names, t \in Titles}
    \cup {<<"list-tasks", u>> : u \in Names}
    \cup {<<"list-users">>, <<>>, <<"--help">>, <<"remove-task">>}
    \cup {<<"add-task", u>> : u \in Names}
    \cup {<<"list-users", u>> : u \in Names}

\* Number of positionals each subparser declares.
Positionals(cmd) ==
    CASE cmd = "add-task" -> 2
      [] cmd = "complete-task" -> 2
      [] cmd = "list-tasks" -> 1
      [] cmd = "list-users" -> 0

HelpText ==
    << <<"usage: ">>, <<"Task Manager CLI - Manage tasks for users">> >>

\* parser.parse_args(): the namespace, or (exits) the exit argparse itself
\* takes: code 0 after --help, code 2 after an error, whose text goes to
\* standard error.
parse_args(argv) ==
    IF Len(argv) = 0
    THEN [exits |-> FALSE, code |-> 0, func |-> None, user |-> None, title |-> None, out |-> <<>>]
    ELSE IF argv[1] = "--help"
    THEN [exits |-> TRUE, code |-> 0, func |-> None, user |-> None, title |-> None, out |-> HelpText]
    ELSE IF argv[1] \notin {"add-task", "complete-task", "list-tasks", "list-users"}
            \/ Len(argv) - 1 # Positionals(argv[1])
    THEN [exits |-> TRUE, code |-> 2, func |-> None, user |-> None, title |-> None, out |-> <<>>]
    ELSE [exits |-> FALSE, code |-> 0, func |-> argv[1],
          user |-> IF Len(argv) >= 2 THEN argv[2] ELSE None,
          title |-> IF Len(argv) >= 3 THEN argv[3] ELSE None,
          out |-> <<>>]

\* main() on the registry reg: the registry, the output and the exit status
\* when the process ends.
main(reg, argv) ==
    LET args == parse_args(argv)
        a == Args(args.user, args.title)
    IN  IF args.exits
        THEN [users |-> reg, out |-> args.out, exit |-> args.code]
        ELSE IF args.func = None
        THEN [users |-> reg, out |-> HelpText, exit |-> 0]
        ELSE LET r == CASE args.func = "add-task" -> add_task(reg, a)
                        [] args.func = "complete-task" -> complete_task(reg, a)
                        [] args.func = "list-tasks" -> list_tasks(reg, a)
                        [] args.func = "list-users" -> list_users(reg, a)
             IN  [users |-> r.users, out |-> r.out, exit |-> 0]

\* Variant in which a new process starts from the registry the previous
\* process ended with.
users_persisted == users

\* The registry a new process starts with: the module-level assignment.
users_at_import == <<>>

ArgvCommand(argv) ==
    [cmd |-> IF Len(argv) >= 1 THEN argv[1] ELSE None,
     user |-> IF Len(argv) >= 2 THEN argv[2] ELSE None,
     title |-> IF Len(argv) >= 3 THEN argv[3] ELSE None]

\* One invocation of the tool: the module is loaded, main() runs, the process
\* exits.  `users` is the registry the process ended with.
Process(argv) ==
    /\ Len(procs) < MaxProcs
    /\ LET r == main(users_at_import, argv)
       IN  /\ users' = r.users
           /\ out' = r.out
           /\ exitCode' = r.exit
    /\ last' = ArgvCommand(argv)
    /\ procs' = Append(procs, argv)
    /\ UNCHANGED added

NextCli ==
    \E argv \in Argvs : Process(argv)

SpecCli == Init /\ [][NextCli]_vars

\* ------------------------------------------------------------------ properties
\* Vocabulary of the properties, stated on the registry without the handlers.

Registered(reg, name) ==
    \E i \in 1..Len(reg) : reg[i].key = name

EntriesOf(reg, name) ==
    {i \in 1..Len(reg) : reg[i].key = name}

\* The task sequence of a user; empty for a username that is not registered.
TasksOf(reg, name) ==
    IF Registered(reg, name)
    THEN reg[CHOOSE i \in 1..Len(reg) : reg[i].key = name].value.tasks
    ELSE <<>>

TitlesOf(tasks) ==
    [i \in 1..Len(tasks) |-> tasks[i].title]

HasTitle(tasks, title) ==
    \E i \in 1..Len(tasks) : tasks[i].title = title

\* Position of the earliest task with the title.
FirstTitled(tasks, title) ==
    CHOOSE i \in 1..Len(tasks) :
        /\ tasks[i].title = title
        /\ \A j \in 1..(i - 1) : tasks[j].title # title

CompletedLine(title) ==
    <<CheckMark, " Task '", title, "' completed.">>

AlreadyLine(title) ==
    <<Info, "  Task '", title, "' is already completed.">>

UserNotFoundLine(name) ==
    <<CrossMark, " User '", name, "' not found.">>

TaskNotFoundLine(name, title) ==
    <<CrossMark, " Task '", title, "' not found for ", name, ".">>

AddedLine(name, title) ==
    <<Pin, " Task '", title, "' added to ", name, ".">>

\* The registry with task k of user name marked completed, all else as it is.
WithCompleted(reg, name, k) ==
    [i \in 1..Len(reg) |->
        IF reg[i].key = name
        THEN [reg[i] EXCEPT !.value.tasks[k].completed = TRUE]
        ELSE reg[i]]

\* ---- C1

C1_Step ==
    last'.cmd = "complete-task" /\ HasTitle(TasksOf(users, last'.user), last'.title)
    => LET u == last'.user
           t == last'.title
           k == FirstTitled(TasksOf(users, u), t)
       IN  IF TasksOf(users, u)[k].completed
           THEN /\ out' = << AlreadyLine(t) >>
                /\ users' = users
           ELSE /\ out' = << CompletedLine(t) >>
                /\ users' = WithCompleted(users, u, k)
                /\ TasksOf(users', u)[k].completed

\* A completed task keeps its position, its flag, and the titles up to it, so
\* it stays the earliest task of its title.
C1_Stays ==
    \A u \in Names :
        LET a == TasksOf(users, u)
            b == TasksOf(users', u)
        IN  \A k \in 1..Len(a) :
                a[k].completed
                => /\ Len(b) >= k
                   /\ b[k].completed
                   /\ \A j \in 1..k : b[j].title = a[j].title

\* C1: once add-task(u,t) has put a task titled t in u's list, a
\* complete-task(u,t) that finds the earliest such task incomplete completes
\* exactly that task and prints the completion line; one that finds it
\* completed prints the already-completed line and changes nothing; and once
\* it is completed it stays the earliest and completed, so the completion line
\* for (u,t) is never printed again.
C1_CompleteOnceThenAlready ==
    [][C1_Step /\ C1_Stays]_vars

C1_Witness ==
    \E u \in Names, t \in Titles :
        /\ last = [cmd |-> "complete-task", user |-> u, title |-> t]
        /\ out = << AlreadyLine(t) >>
        /\ HasTitle(TasksOf(users, u), t)
        /\ TasksOf(users, u)[FirstTitled(TasksOf(users, u), t)].completed

\* ---- C2

C2_Step ==
    /\ (/\ last'.cmd \in {"complete-task", "list-tasks"}
        /\ ~Registered(users, last'.user))
       => /\ out' = << UserNotFoundLine(last'.user) >>
          /\ users' = users
          /\ ~Registered(users', last'.user)
    /\ (/\ last'.cmd = "complete-task"
        /\ Registered(users, last'.user)
        /\ ~HasTitle(TasksOf(users, last'.user), last'.title))
       => /\ out' = << TaskNotFoundLine(last'.user, last'.title) >>
          /\ users' = users

\* C2: complete-task or list-tasks for a username that is not registered
\* prints the user-not-found line, complete-task for a registered user with
\* no task of that title prints the task-not-found line, and in both cases
\* the registry after the command equals the registry before it (no User is
\* created).
C2_FailuresLeaveRegistry ==
    [][C2_Step]_vars

C2_Witness ==
    \E u \in Names, t \in Titles : \E v \in Names \ {u} :
        /\ last = [cmd |-> "complete-task", user |-> u, title |-> t]
        /\ out = << UserNotFoundLine(u) >>
        /\ ~Registered(users, u)
        /\ Registered(users, v)

\* ---- C3

C3_Step ==
    last'.cmd = "add-task"
    => LET u == last'.user
           t == last'.title
       IN  /\ out' = << AddedLine(u, t) >>
           /\ Cardinality(EntriesOf(users', u)) = 1
           /\ \A i \in EntriesOf(users', u) : users'[i].value.name = u
           /\ TasksOf(users', u) =
                  Append(TasksOf(users, u), [title |-> t, completed |-> FALSE])
           /\ \A v \in Names \ {u} :
                  /\ Registered(users', v) = Registered(users, v)
                  /\ TasksOf(users', v) = TasksOf(users, v)
           /\ \A i \in 1..Len(users) : users'[i].key = users[i].key

\* C3: after add-task(u,t) the registry holds exactly one User for u, whose
\* task sequence is the previous one (empty if u was new) with one incomplete
\* task titled t appended; every other username is as before; the line
\* printed names t and u.
C3_AddAppends ==
    [][C3_Step]_vars

C3_Witness ==
    \E u \in Names, t \in Titles : \E v \in Names \ {u} :
        /\ last = [cmd |-> "add-task", user |-> u, title |-> t]
        /\ Len(TasksOf(users, u)) = 2
        /\ TasksOf(users, u)[1].completed
        /\ TasksOf(users, u)[2] = [title |-> t, completed |-> FALSE]
        /\ Registered(users, v)

\* ---- C4

ExpectedListing(name) ==
    LET tasks == TasksOf(users, name)
    IN  IF Len(tasks) = 0
        THEN out = << <<name, " has no tasks.">> >>
        ELSE /\ Len(out) = Len(tasks) + 1
             /\ out[1] = <<"\n", name, "'s tasks:">>
             /\ \A i \in 1..Len(tasks) :
                    out[i + 1] = <<"  ", Digit[i + 1], ". ",
                                   (IF tasks[i].completed THEN CheckMark ELSE Circle),
                                   " ", added[name][i]>>

\* C4: in every state each user's titles, in list order, are the titles
\* add-task was called with for that user, in call order (completing never
\* reorders); and what list-tasks(u) printed for a registered u is the header
\* and one line per task, line i numbered i with the i-th added title and the
\* completed glyph exactly when that task is completed.  A user without
\* tasks (a registered user always has one, so: a newly constructed User)
\* lists as the single has-no-tasks line.
C4_ListingInAddOrder ==
    /\ \A u \in Names : TitlesOf(TasksOf(users, u)) = added[u]
    /\ \A u \in Names : User_list_tasks(User_init(u)) = << <<u, " has no tasks.">> >>
    /\ (last.cmd = "list-tasks" /\ Registered(users, last.user))
       => ExpectedListing(last.user)

C4_Witness ==
    \E u \in Names :
        /\ last.cmd = "list-tasks" /\ last.user = u
        /\ Len(TasksOf(users, u)) = 2
        /\ ~TasksOf(users, u)[1].completed
        /\ TasksOf(users, u)[2].completed
        /\ TasksOf(users, u)[1].title # TasksOf(users, u)[2].title
        /\ Len(out) = 3

\* ---- C5

\* C5: for every user in the registry, and for a newly constructed user, and
\* every title t, get_task_by_title(t) is the position of the earliest task
\* whose title is exactly t when there is one, and None when there is none.
C5_LookupFirstMatch ==
    /\ \A i \in 1..Len(users), t \in Titles :
        LET user == users[i].value
            r == User_get_task_by_title(user, t)
        IN  IF HasTitle(user.tasks, t)
            THEN /\ r \in 1..Len(user.tasks)
                 /\ user.tasks[r].title = t
                 /\ \A j \in 1..(r - 1) : user.tasks[j].title # t
            ELSE r = NoRef
    /\ \A u \in Names, t \in Titles :
        User_get_task_by_title(User_init(u), t) = NoRef

C5_Witness ==
    \E u \in Names, t \in Titles :
        /\ last = [cmd |-> "complete-task", user |-> u, title |-> t]
        /\ out = << CompletedLine(t) >>
        /\ TasksOf(users, u) = << [title |-> t, completed |-> TRUE],
                                  [title |-> t, completed |-> FALSE] >>

\* ---- C6

HeldTasks ==
    UNION {{users[i].value.tasks[k] : k \in 1..Len(users[i].value.tasks)} :
           i \in 1..Len(users)}

\* C6: for every task, newly constructed or held by a user, completed or not,
\* complete() yields a completed task with the same title, and complete()
\* again yields the same task.
C6_CompleteIdempotent ==
    \A task \in HeldTasks \cup {Task_init(t) : t \in Titles} :
        /\ Task_complete(task).completed = TRUE
        /\ Task_complete(task).title = task.title
        /\ Task_complete(Task_complete(task)) = Task_complete(task)

C6_Witness ==
    /\ last.cmd = "complete-task"
    /\ \E task \in HeldTasks : task.completed
    /\ \E task \in HeldTasks : ~task.completed

\* ---- C7

LastArgv ==
    procs[Len(procs)]

\* C7: whatever processes ran before, a process started with a well-formed
\* complete-task or list-tasks ends on the user-not-found line with status 0
\* and an empty registry, one started with list-users prints "No users
\* found.", and no process ends with more than the one task of the one user
\* its own command added.
C7_FreshRegistryPerProcess ==
    /\ (/\ Len(procs) > 0
        /\ \/ \E u \in Names, t \in Titles : LastArgv = <<"complete-task", u, t>>
           \/ \E u \in Names : LastArgv = <<"list-tasks", u>>)
       => /\ out = << UserNotFoundLine(LastArgv[2]) >>
          /\ exitCode = 0
          /\ users = <<>>
    /\ (Len(procs) > 0 /\ LastArgv = <<"list-users">>)
       => /\ out = << <<"No users found.">> >>
          /\ exitCode = 0
          /\ users = <<>>
    /\ Len(users) <= 1
    /\ \A i \in 1..Len(users) : Len(users[i].value.tasks) <= 1

C7_Witness ==
    \E u \in Names, t \in Titles :
        /\ procs = << <<"add-task", u, t>>, <<"complete-task", u, t>> >>
        /\ out = << UserNotFoundLine(u) >>
        /\ exitCode = 0

\* ---- C8

C8_Step ==
    /\ Len(users') >= Len(users)
    /\ \A i \in 1..Len(users) :
        /\ users'[i].key = users[i].key
        /\ users'[i].value.name = users[i].value.name
        /\ Len(users'[i].value.tasks) >= Len(users[i].value.tasks)
        /\ \A k \in 1..Len(users[i].value.tasks) :
            /\ users'[i].value.tasks[k].title = users[i].value.tasks[k].title
            /\ users[i].value.tasks[k].completed
               => users'[i].value.tasks[k].completed

\* C8: no step removes a user, removes or reorders a task, changes a title
\* or takes a completed flag from true back to false.
C8_AppendOnly ==
    [][C8_Step]_vars

C8_Witness ==
    \E u \in Names : \E v \in Names \ {u} :
        /\ last.cmd = "list-users"
        /\ Len(TasksOf(users, u)) = 2
        /\ TasksOf(users, u)[1].completed
        /\ TasksOf(users, u)[1].title # TasksOf(users, u)[2].title
        /\ Len(TasksOf(users, v)) = 1
        /\ Len(out) = 3

\* ---- C9

\* C9: every task held by any user has a non-empty title.
C9_TitlesNonEmpty ==
    \A task \in HeldTasks : task.title # ""

\* ---- C10

\* C10: a task that has an earlier task of the same title in its user's list
\* is never completed.
C10_DuplicatesShadowed ==
    \A i \in 1..Len(users) :
        LET tasks == users[i].value.tasks
        IN  \A j \in 1..Len(tasks), k \in 1..Len(tasks) :
                (j < k /\ tasks[j].title = tasks[k].title) => ~tasks[k].completed

C10_Witness ==
    \E u \in Names, t \in Titles :
        /\ last = [cmd |-> "complete-task", user |-> u, title |-> t]
        /\ out = << AlreadyLine(t) >>
        /\ TasksOf(users, u) = << [title |-> t, completed |-> TRUE],
                                  [title |-> t, completed |-> FALSE] >>

====
